---- MODULE Spec2Model ----
(***************************************************************************)
(* Model of the content-generation tasks of the repository:                *)
(*   - the structured-response extraction (_extract_response_json,         *)
(*     response_to_pydantic),                                              *)
(*   - the tasks compose_tweet, judge_tweet and create_linkedin_post with  *)
(*     the assembly function _compose_linkedin_post,                       *)
(*   - the compose/judge loop of twitter_agent.                            *)
(* Python strings are TLA+ strings (sequences of characters); a JSON value *)
(* is a one-field record whose field name is its JSON type.                *)
(***************************************************************************)
EXTENDS Integers, Sequences, FiniteSets, TLC

VARIABLES
    run,                \* the task run under way: task name, input, model completion
    outcome,            \* what that run returned or raised
    model_calls,        \* the calls that run made to client.responses.create
    pc,                 \* twitter_agent: position in the coroutine
    i,                  \* twitter_agent: loop variable of `for i in range(3)`
    message,            \* twitter_agent: input.message
    tweet,              \* twitter_agent: local `tweet`
    judge_tweet_result, \* twitter_agent: local `judge_tweet_result`
    compose_log,        \* twitter_agent: the compose_tweet runs awaited, in order
    judge_log,          \* twitter_agent: the judge_tweet runs awaited, in order
    output,             \* twitter_agent: the returned TwitterAgentOutput
    error               \* twitter_agent: the exception that left the coroutine

toolVars == <<run, outcome, model_calls>>
agentVars == <<pc, i, message, tweet, judge_tweet_result, compose_log, judge_log,
               output, error>>
vars == <<run, outcome, model_calls, pc, i, message, tweet, judge_tweet_result,
          compose_log, judge_log, output, error>>

(***************************************************************************)
(* Bounds of the model, and the attempts of `for i in range(3)`.           *)
(***************************************************************************)
MaxTags == 3

MaxAttempts == 3

(***************************************************************************)
(* Python values.                                                          *)
(***************************************************************************)
None == [none |-> TRUE]

Ok(v) == [ok |-> v]

Raise(type, msg) == [exc |-> type, msg |-> msg]

IsOk(r) == DOMAIN r = {"ok"}

IsRaise(r) == DOMAIN r = {"exc", "msg"}

\* JSON values as json.loads returns them.
JStr(s) == [str |-> s]

JBool(b) == [bool |-> b]

JList(l) == [list |-> l]

JNull == [null |-> TRUE]

JObj(f) == [obj |-> f]

IsJStr(v) == DOMAIN v = {"str"}

IsJBool(v) == DOMAIN v = {"bool"}

IsJList(v) == DOMAIN v = {"list"}

IsJObj(v) == DOMAIN v = {"obj"}

\* dict.get(key, default) on the members of a parsed JSON object.
Get(d, key, default) == IF key \in DOMAIN d THEN d[key] ELSE default

(***************************************************************************)
(* str.strip(), str.join() and the hashtag list comprehension.             *)
(***************************************************************************)
Whitespace == {" ", "\n", "\t"}

RECURSIVE lstrip(_)
lstrip(s) ==
    IF Len(s) = 0 THEN s
    ELSE IF SubSeq(s, 1, 1) \in Whitespace THEN lstrip(SubSeq(s, 2, Len(s)))
    ELSE s

RECURSIVE rstrip(_)
rstrip(s) ==
    IF Len(s) = 0 THEN s
    ELSE IF SubSeq(s, Len(s), Len(s)) \in Whitespace
         THEN rstrip(SubSeq(s, 1, Len(s) - 1))
    ELSE s

stripLeftOnly(s) == lstrip(s)

strip(s) == rstrip(lstrip(s))

RECURSIVE join(_, _)
join(sep, parts) ==
    IF Len(parts) = 0 THEN ""
    ELSE IF Len(parts) = 1 THEN parts[1]
    ELSE parts[1] \o sep \o join(sep, Tail(parts))

\* [x for x in parts if x]
RECURSIVE NonEmpty(_)
NonEmpty(parts) ==
    IF Len(parts) = 0 THEN <<>>
    ELSE IF Len(parts[1]) = 0 THEN NonEmpty(Tail(parts))
    ELSE <<parts[1]>> \o NonEmpty(Tail(parts))

RECURSIVE StripEach(_)
StripEach(tags) ==
    IF Len(tags) = 0 THEN <<>> ELSE <<strip(tags[1])>> \o StripEach(Tail(tags))

\* [tag.strip() for tag in tags if tag.strip()]
clean_hashtags(tags) == NonEmpty(StripEach(tags))

(***************************************************************************)
(* The text payload of a completion.  A payload is Python None, a value    *)
(* that is not a str, a str that is no JSON document (given by its         *)
(* characters), or a str that is the serialisation of the JSON value doc.  *)
(***************************************************************************)
TextNone == [py |-> "None"]

TextNotStr == [py |-> "int"]

TextChars(s) == [py |-> "str", chars |-> s]

TextJson(doc) == [py |-> "str", json |-> doc]

NonJsonChars == {"", "{oops"}

\* Python truthiness of a payload (`not content`).
Truthy(text) ==
    CASE text.py = "None" -> FALSE
      [] text.py = "int" -> TRUE
      [] "chars" \in DOMAIN text -> Len(text.chars) > 0
      [] OTHER -> TRUE

\* json.loads(text)
json_loads(text) ==
    CASE text.py # "str" -> Raise("TypeError", "the JSON object must be str, bytes or bytearray")
      [] "chars" \in DOMAIN text -> Raise("JSONDecodeError", "Expecting value")
      [] OTHER -> Ok(text.json)

(***************************************************************************)
(* A Responses-API completion either has the attribute output_text or      *)
(* only output, a list of messages, each a list of content blocks' texts.  *)
(***************************************************************************)
WithOutputText(text) == [output_text |-> text]

WithOutput(msgs) == [output |-> msgs]

\* _extract_response_json(completion): the parsed JSON value, or the error raised.
LoadsOrRuntimeError(text) ==
    LET r == json_loads(text)
    IN  IF IsRaise(r) /\ r.exc = "JSONDecodeError"
        THEN Raise("RuntimeError", "OpenAI response JSON could not be parsed.")
        ELSE r

extract_response_json(completion) ==
    IF "output_text" \in DOMAIN completion
    THEN LoadsOrRuntimeError(completion.output_text)
    ELSE IF Len(completion.output) = 0 \/ Len(completion.output[1]) = 0
         THEN Raise("RuntimeError", "OpenAI returned an unexpected response structure.")
         ELSE LoadsOrRuntimeError(completion.output[1][1])

(***************************************************************************)
(* response_to_pydantic(completion, model).  A pydantic model is given by  *)
(* its required string fields; model_validate_json accepts a JSON object   *)
(* that has each of them as a string.                                      *)
(***************************************************************************)
model_validate_json(content, model) ==
    IF content.py = "str" /\ "json" \in DOMAIN content /\ IsJObj(content.json)
       /\ \A f \in model : f \in DOMAIN content.json.obj /\ IsJStr(content.json.obj[f])
    THEN Ok([f \in model |-> content.json.obj[f].str])
    ELSE Raise("ValidationError", "validation errors for model")

response_to_pydantic(content, model) ==
    IF ~Truthy(content)
    THEN Raise("TypeError", "OpenAI returned empty content.")
    ELSE model_validate_json(content, model)

(***************************************************************************)
(* compose_tweet(input, ctx), given the completion the model call returns. *)
(***************************************************************************)
\* the user prompt the model call is given
ComposeUserPrompt(input) ==
    "Compose a tweet/X post about: " \o input.prompt \o "\n"
        \o "Tone: " \o input.tone \o "\n"
        \o "Requirements: "
        \o (IF input.include_hashtags
            THEN "Include up to three relevant hashtags separated by spaces at the end of the tweet."
            ELSE "Do not include hashtags.")
        \o "\n"
        \o "Return the result as a JSON object with keys 'tweet' and 'hashtags'."

\* parsed["tweet"].strip()
TweetField(parsed) ==
    IF ~IsJObj(parsed) THEN Raise("TypeError", "object is not subscriptable")
    ELSE IF "tweet" \notin DOMAIN parsed.obj THEN Raise("KeyError", "tweet")
    ELSE IF ~IsJStr(parsed.obj["tweet"]) THEN Raise("AttributeError", "strip")
    ELSE Ok(strip(parsed.obj["tweet"].str))

\* [tag.strip() for tag in parsed.get("hashtags", []) if tag.strip()]
HashtagsField(parsed) ==
    LET tags == Get(parsed.obj, "hashtags", JList(<<>>))
    IN  IF ~IsJList(tags) THEN Raise("TypeError", "object is not iterable")
        ELSE Ok(clean_hashtags(tags.list))

compose_tweet(input, completion) ==
    LET parsed == extract_response_json(completion)
    IN  IF IsRaise(parsed) THEN parsed
        ELSE LET t == TweetField(parsed.ok)
             IN  IF IsRaise(t) THEN t
                 ELSE LET h == HashtagsField(parsed.ok)
                      IN  IF IsRaise(h) THEN h
                          ELSE Ok([tweet |-> t.ok, tone |-> input.tone,
                                   hashtags |-> h.ok, model |-> input.model])

(***************************************************************************)
(* judge_tweet(input, ctx), given the completion the model call returns.   *)
(***************************************************************************)
FallbackFeedback ==
    "Revise the tweet to improve clarity, tone, or engagement before publishing."

\* bool(parsed.get("should_publish", False))
ShouldPublish(parsed) ==
    LET v == Get(parsed.obj, "should_publish", JBool(FALSE))
    IN  CASE IsJBool(v) -> v.bool
          [] IsJStr(v) -> Len(v.str) > 0
          [] IsJList(v) -> Len(v.list) > 0
          [] OTHER -> FALSE

\* parsed.get("feedback", "").strip()
FeedbackField(parsed) ==
    LET v == Get(parsed.obj, "feedback", JStr(""))
    IN  IF ~IsJStr(v) THEN Raise("AttributeError", "strip") ELSE Ok(strip(v.str))

VerdictNoFallback(should_publish, feedback) ==
    IF should_publish THEN "" ELSE feedback

\* if should_publish: feedback = ""  elif not feedback: feedback = <fallback>
VerdictFeedback(should_publish, feedback) ==
    IF should_publish THEN ""
    ELSE IF Len(feedback) = 0 THEN FallbackFeedback
    ELSE feedback

judge_tweet(input, completion) ==
    LET parsed == extract_response_json(completion)
    IN  IF IsRaise(parsed) THEN parsed
        ELSE IF ~IsJObj(parsed.ok) THEN Raise("AttributeError", "get")
        ELSE LET fb == FeedbackField(parsed.ok)
             IN  IF IsRaise(fb) THEN fb
                 ELSE Ok([should_publish |-> ShouldPublish(parsed.ok),
                          feedback |-> VerdictFeedback(ShouldPublish(parsed.ok), fb.ok),
                          model |-> input.model])

(***************************************************************************)
(* create_linkedin_post(input, ctx) and _compose_linkedin_post.            *)
(***************************************************************************)
\* sections + ["", " ".join(hashtags)] if hashtags
HashtagSections(hashtags) ==
    IF Len(hashtags) > 0 THEN <<"", join(" ", hashtags)>> ELSE <<>>

compose_linkedin_post(headline, body, cta, hashtags) ==
    LET sections == <<strip(headline), "", strip(body), "", strip(cta)>>
                        \o HashtagSections(hashtags)
    IN  join("\n", NonEmpty(sections))

\* if not input.include_hashtags: parsed_payload["hashtags"] = []
WithHashtagSwitch(input, obj) ==
    IF input.include_hashtags THEN obj
    ELSE [k \in DOMAIN obj \cup {"hashtags"} |->
            IF k = "hashtags" THEN JList(<<>>) ELSE obj[k]]

\* parsed_payload[key] for the three sections, in the order they are evaluated
MissingKey(obj) ==
    IF "headline" \notin DOMAIN obj THEN Raise("KeyError", "headline")
    ELSE IF "body" \notin DOMAIN obj THEN Raise("KeyError", "body")
    ELSE IF "cta" \notin DOMAIN obj THEN Raise("KeyError", "cta")
    ELSE None

\* value.strip() of a section
StrField(obj, key) ==
    IF ~IsJStr(obj[key]) THEN Raise("AttributeError", "strip") ELSE Ok(obj[key].str)

create_linkedin_post(input, completion) ==
    LET parsed == extract_response_json(completion)
    IN  IF IsRaise(parsed) THEN parsed
        ELSE IF ~IsJObj(parsed.ok)
        THEN Raise("TypeError", "object is not subscriptable")
        ELSE IF IsRaise(MissingKey(WithHashtagSwitch(input, parsed.ok.obj)))
        THEN MissingKey(WithHashtagSwitch(input, parsed.ok.obj))
        ELSE
        LET payload == WithHashtagSwitch(input, parsed.ok.obj)
            headline == StrField(payload, "headline")
            body == StrField(payload, "body")
            cta == StrField(payload, "cta")
            tags == Get(payload, "hashtags", JList(<<>>))
        IN  IF IsRaise(headline) THEN headline
            ELSE IF IsRaise(body) THEN body
            ELSE IF IsRaise(cta) THEN cta
            ELSE IF ~IsJList(tags) THEN Raise("TypeError", "object is not iterable")
            ELSE Ok([headline |-> strip(headline.ok),
                     body |-> strip(body.ok),
                     cta |-> strip(cta.ok),
                     hashtags |-> clean_hashtags(tags.list),
                     post |-> compose_linkedin_post(headline.ok, body.ok, cta.ok,
                                                    tags.list),
                     tone |-> input.tone,
                     audience |-> input.audience,
                     model |-> input.model,
                     temperature |-> input.temperature])

(***************************************************************************)
(* The replies the model may give, and the task runs built from them.      *)
(***************************************************************************)
TagEntries == {"", " ", "ai", "launch", "  launch "}

TagLists == UNION {[1..n -> TagEntries] : n \in 0..MaxTags}

\* a key the reply leaves out
Missing == [missing |-> TRUE]

\* the JSON objects of the records rs, without the keys that are Missing
Objects(rs) == {[k \in {x \in DOMAIN r : r[x] # Missing} |-> r[k]] : r \in rs}

\* the completions carrying the JSON documents docs, and the ones carrying none
Completions(docs) ==
    {WithOutputText(TextJson(d)) : d \in docs}
        \cup {WithOutputText(TextChars(c)) : c \in NonJsonChars}
        \cup {WithOutputText(TextNone), WithOutputText(TextNotStr),
              WithOutput(<<>>), WithOutput(<< <<>> >>),
              WithOutput(<< <<TextChars("")>> >>)}

TagValues == {JList(l) : l \in TagLists} \cup {JNull, Missing}

TweetDocs ==
    {JObj(f) : f \in Objects(
        [tweet : {JStr("Big news"), JStr(" Big news\n"), JStr(" "), JNull, Missing},
         hashtags : TagValues])} \cup {JNull}

VerdictDocs ==
    {JObj(f) : f \in Objects(
        [should_publish : {JBool(TRUE), JBool(FALSE), JStr("false"), JNull, Missing},
         feedback : {JStr(""), JStr(" \n"), JStr("too long"), JStr(" too long "),
                     JNull, Missing}])} \cup {JNull}

PostDocs ==
    {JObj(f) : f \in Objects(
        [headline : {JStr("Ship It"), JStr("  Ship It\n"), JStr(" "), JNull, Missing},
         body : {JStr("We shipped."), JStr(""), Missing},
         cta : {JStr("Try it now."), JStr("\tTry it now. "), Missing},
         hashtags : TagValues])} \cup {JNull}

ModelDocs ==
    {JObj(f) : f \in Objects(
        [title : {JStr("T"), JNull, Missing},
         summary : {JStr("S"), JNull, Missing}])} \cup {JNull}

Contents ==
    {TextJson(d) : d \in ModelDocs} \cup {TextChars(c) : c \in NonJsonChars}
        \cup {TextNone, TextNotStr}

ComposeTweetInputs ==
    [prompt : {"workshop"}, tone : {"punchy"}, include_hashtags : BOOLEAN,
     model : {"gpt-4o-mini"}, temperature : {8}]

JudgeTweetInputs == [tweet : {"Big news"}, model : {"gpt-4o-mini"}, temperature : {2}]

CreatePostInputs ==
    [prompt : {"launch"}, tone : {"professional"}, audience : {"LinkedIn audience"},
     model : {"gpt-4o-mini"}, temperature : {7}, include_hashtags : BOOLEAN]

\* the task input as the worker receives it: JSON, its text field as a JSON value
AsRequest(input, field) == [input EXCEPT ![field] = JStr(input[field])]

\* temperatures in tenths: the bounds `ge=0, le=2` of the request models
TemperatureGe == 0

TemperatureLe == 20

Temperatures == {0 - 1, 0, 8, 20, 21}

Instructions == {JStr("workshop"), JStr(""), JNull, Missing}

ComposeTweetRequests ==
    [prompt : Instructions, tone : {"punchy"}, include_hashtags : {TRUE},
     model : {"gpt-4o-mini"}, temperature : Temperatures]

JudgeTweetRequests ==
    [tweet : Instructions, model : {"gpt-4o-mini"}, temperature : Temperatures]

\* input_validator.model_validate(request): the request model, or pydantic's
\* ValidationError listing the fields that break their constraints.  The text
\* field is declared `str = Field(...)`: required, of any length.
input_validator(request, field) ==
    LET text == IF request[field] = Missing THEN field \o ": Field required; "
                ELSE IF ~IsJStr(request[field])
                     THEN field \o ": Input should be a valid string; "
                ELSE ""
        temperature ==
            IF request.temperature < TemperatureGe
            THEN "temperature: Input should be greater than or equal to 0; "
            ELSE IF request.temperature > TemperatureLe
                 THEN "temperature: Input should be less than or equal to 2; "
            ELSE ""
    IN  IF text \o temperature = ""
        THEN Ok([request EXCEPT ![field] = request[field].str])
        ELSE Raise("ValidationError", text \o temperature)

\* the replies the requests that may not validate are run with
RequestTweetDocs == {JObj([tweet |-> JStr("Big news"), hashtags |-> JList(<<"ai">>)])}

RequestVerdictDocs == {JObj([should_publish |-> JBool(TRUE), feedback |-> JStr("")])}

Runs ==
    [task : {"compose_tweet"}, input : {AsRequest(x, "prompt") : x \in ComposeTweetInputs},
     completion : Completions(TweetDocs)]
    \cup [task : {"compose_tweet"}, input : ComposeTweetRequests,
          completion : Completions(RequestTweetDocs)]
    \cup [task : {"judge_tweet"}, input : {AsRequest(x, "tweet") : x \in JudgeTweetInputs},
          completion : Completions(VerdictDocs)]
    \cup [task : {"judge_tweet"}, input : JudgeTweetRequests,
          completion : Completions(RequestVerdictDocs)]
    \cup [task : {"create_linkedin_post"}, input : CreatePostInputs,
          completion : Completions(PostDocs)]
    \cup [task : {"extract_response_json"}, input : {None},
          completion : Completions(ModelDocs)]
    \cup [task : {"response_to_pydantic"}, input : {{"title"}, {"title", "summary"}},
          completion : Contents]

(***************************************************************************)
(* One run of a task: the worker hands the input to the task, the model    *)
(* call returns the completion, the task returns or raises.                *)
(***************************************************************************)
AgentIdle ==
    /\ pc = "idle"
    /\ i = 0
    /\ message = None
    /\ tweet = None
    /\ judge_tweet_result = None
    /\ compose_log = <<>>
    /\ judge_log = <<>>
    /\ output = None
    /\ error = None

InitTools ==
    /\ run \in Runs
    /\ outcome = None
    /\ model_calls = 0
    /\ AgentIdle

RunComposeTweet ==
    /\ run.task = "compose_tweet"
    /\ outcome = None
    /\ LET input == input_validator(run.input, "prompt")
       IN  IF IsRaise(input)
           THEN outcome' = input /\ UNCHANGED model_calls
           ELSE /\ model_calls' = model_calls + 1
                /\ outcome' = compose_tweet(input.ok, run.completion)
    /\ UNCHANGED <<run, agentVars>>

RunJudgeTweet ==
    /\ run.task = "judge_tweet"
    /\ outcome = None
    /\ LET input == input_validator(run.input, "tweet")
       IN  IF IsRaise(input)
           THEN outcome' = input /\ UNCHANGED model_calls
           ELSE /\ model_calls' = model_calls + 1
                /\ outcome' = judge_tweet(input.ok, run.completion)
    /\ UNCHANGED <<run, agentVars>>

RunCreateLinkedinPost ==
    /\ run.task = "create_linkedin_post"
    /\ outcome = None
    /\ model_calls' = model_calls + 1
    /\ outcome' = create_linkedin_post(run.input, run.completion)
    /\ UNCHANGED <<run, agentVars>>

RunExtractResponseJson ==
    /\ run.task = "extract_response_json"
    /\ outcome = None
    /\ outcome' = extract_response_json(run.completion)
    /\ UNCHANGED <<run, model_calls, agentVars>>

RunResponseToPydantic ==
    /\ run.task = "response_to_pydantic"
    /\ outcome = None
    /\ outcome' = response_to_pydantic(run.completion, run.input)
    /\ UNCHANGED <<run, model_calls, agentVars>>

NextTools ==
    \/ RunComposeTweet
    \/ RunJudgeTweet
    \/ RunCreateLinkedinPost
    \/ RunExtractResponseJson
    \/ RunResponseToPydantic

SpecTools == InitTools /\ [][NextTools]_vars

(***************************************************************************)
(* twitter_agent(input, ctx): the compose/judge loop.                      *)
(*                                                                         *)
(* ComposeTweetInput declares `prompt` as required and has no field        *)
(* `message` (compose_tweet.py:19), so pydantic rejects the request that   *)
(* twitter_agent.py:27-33 builds: that outcome is ComposeInputRejected.    *)
(* The rest of the loop is modelled for a request that validates, with     *)
(* input.message as its prompt, so that the loop's own behaviour can be    *)
(* examined: the behaviours of the model include those of the code.        *)
(* Line 21, `tweet = ComposeTweetResult | None = None`, is read as the     *)
(* annotated assignment `tweet: ComposeTweetResult | None = None`.         *)
(***************************************************************************)
Messages == {JStr("PyCon workshop"), JNull}

AgentTweetDocs ==
    {JObj(f) : f \in Objects(
        [tweet : {JStr("draft A"), JStr(" draft B\n"), Missing},
         hashtags : {JList(<<>>), JList(<<" pycon", " ">>), Missing}])}

AgentVerdictDocs ==
    {JObj(f) : f \in Objects(
        [should_publish : {JBool(TRUE), JBool(FALSE)},
         feedback : {JStr(""), JStr("too long"), JStr(" add a hook ")}])}

AgentCompletions(docs) ==
    {WithOutputText(TextJson(d)) : d \in docs} \cup {WithOutputText(TextChars(""))}

\* ComposeTweetInput(message=input.message, tone="punchy", ...)
ComposeRequest(msg) ==
    [prompt |-> msg.str, tone |-> "punchy", include_hashtags |-> TRUE,
     model |-> "gpt-4o-mini", temperature |-> 8]

\* JudgeTweetInput(tweet=tweet.tweet, model="gpt-4o-mini", temperature=0.2)
JudgeRequest(t) == [tweet |-> t.tweet, model |-> "gpt-4o-mini", temperature |-> 2]

AgentOutputWithoutHashtags(t) == [tweet |-> t.tweet, hashtags |-> <<>>]

\* TwitterAgentOutput(tweet=tweet.tweet, hashtags=tweet.hashtags)
AgentOutput(t) == [tweet |-> t.tweet, hashtags |-> t.hashtags]

HasNextOffByOne(k) == k < MaxAttempts

\* the loop has another iteration after iteration k
HasNext(k) == k + 1 < MaxAttempts

Init ==
    /\ run = None
    /\ outcome = None
    /\ model_calls = 0
    /\ pc = "compose"
    /\ i = 0
    /\ message \in Messages
    /\ tweet = None
    /\ judge_tweet_result = None
    /\ compose_log = <<>>
    /\ judge_log = <<>>
    /\ output = None
    /\ error = None

\* ComposeTweetInput(...) raises pydantic's ValidationError
ComposeInputRejected ==
    /\ pc = "compose"
    /\ pc' = "raised"
    /\ error' = Raise("ValidationError", "prompt: Field required")
    /\ UNCHANGED <<toolVars, i, message, tweet, judge_tweet_result, compose_log,
                   judge_log, output>>

\* tweet = await compose_tweet.aio_run(input=ComposeTweetInput(...))
Compose ==
    /\ pc = "compose"
    /\ IsJStr(message)
    /\ \E c \in AgentCompletions(AgentTweetDocs) :
         LET r == compose_tweet(ComposeRequest(message), c)
         IN  /\ compose_log' = Append(compose_log,
                                      [input |-> ComposeRequest(message), result |-> r])
             /\ IF IsOk(r)
                THEN tweet' = r.ok /\ pc' = "judge" /\ UNCHANGED error
                ELSE pc' = "raised" /\ error' = r /\ UNCHANGED tweet
    /\ UNCHANGED <<toolVars, i, message, judge_tweet_result, judge_log, output>>

\* the model call of compose_tweet fails: aio_run raises in the agent
ComposeFails ==
    /\ pc = "compose"
    /\ IsJStr(message)
    /\ compose_log' = Append(compose_log,
           [input |-> ComposeRequest(message),
            result |-> Raise("APIConnectionError", "Connection error.")])
    /\ pc' = "raised"
    /\ error' = Raise("APIConnectionError", "Connection error.")
    /\ UNCHANGED <<toolVars, i, message, tweet, judge_tweet_result, judge_log, output>>

\* judge_tweet_result = await judge_tweet.aio_run(input=JudgeTweetInput(...))
Judge ==
    /\ pc = "judge"
    /\ \E c \in AgentCompletions(AgentVerdictDocs) :
         LET r == judge_tweet(JudgeRequest(tweet), c)
         IN  /\ judge_log' = Append(judge_log,
                                    [input |-> JudgeRequest(tweet), result |-> r])
             /\ IF IsOk(r)
                THEN judge_tweet_result' = r.ok /\ pc' = "decide" /\ UNCHANGED error
                ELSE pc' = "raised" /\ error' = r /\ UNCHANGED judge_tweet_result
    /\ UNCHANGED <<toolVars, i, message, tweet, compose_log, output>>

\* a judge failure caught in the loop and taken for a rejection
JudgeFailsSwallowed ==
    /\ pc = "judge"
    /\ judge_log' = Append(judge_log,
           [input |-> JudgeRequest(tweet),
            result |-> Raise("APIConnectionError", "Connection error.")])
    /\ pc' = "decide"
    /\ judge_tweet_result' = [should_publish |-> FALSE, feedback |-> FallbackFeedback,
                              model |-> "gpt-4o-mini"]
    /\ UNCHANGED <<toolVars, i, message, tweet, compose_log, output, error>>

\* the model call of judge_tweet fails: aio_run raises in the agent
JudgeFails ==
    /\ pc = "judge"
    /\ judge_log' = Append(judge_log,
           [input |-> JudgeRequest(tweet),
            result |-> Raise("APIConnectionError", "Connection error.")])
    /\ pc' = "raised"
    /\ error' = Raise("APIConnectionError", "Connection error.")
    /\ UNCHANGED <<toolVars, i, message, tweet, judge_tweet_result, compose_log, output>>

\* if judge_tweet_result.should_publish: return TwitterAgentOutput(...)
Accept ==
    /\ pc = "decide"
    /\ judge_tweet_result.should_publish
    /\ output' = AgentOutput(tweet)
    /\ pc' = "returned"
    /\ UNCHANGED <<toolVars, i, message, tweet, judge_tweet_result, compose_log,
                   judge_log, error>>

\* the next iteration of the for loop
Reject ==
    /\ pc = "decide"
    /\ ~judge_tweet_result.should_publish
    /\ HasNext(i)
    /\ i' = i + 1
    /\ pc' = "compose"
    /\ UNCHANGED <<toolVars, message, tweet, judge_tweet_result, compose_log,
                   judge_log, output, error>>

ExhaustReturnsLast ==
    /\ pc = "decide"
    /\ ~judge_tweet_result.should_publish
    /\ ~HasNext(i)
    /\ pc' = "returned"
    /\ output' = AgentOutput(tweet)
    /\ UNCHANGED <<toolVars, i, message, tweet, judge_tweet_result, compose_log,
                   judge_log, error>>

\* raise ValueError("Failed to generate a tweet")
Exhaust ==
    /\ pc = "decide"
    /\ ~judge_tweet_result.should_publish
    /\ ~HasNext(i)
    /\ pc' = "raised"
    /\ error' = Raise("ValueError", "Failed to generate a tweet")
    /\ UNCHANGED <<toolVars, i, message, tweet, judge_tweet_result, compose_log,
                   judge_log, output>>

Next ==
    \/ ComposeInputRejected
    \/ Compose
    \/ ComposeFails
    \/ Judge
    \/ JudgeFails
    \/ Accept
    \/ Reject
    \/ Exhaust

Spec == Init /\ [][Next]_vars

(***************************************************************************)
(* Properties of the compose/judge loop (specification Spec).              *)
(***************************************************************************)
Terminal == pc \in {"returned", "raised"}

Rejected(entry) == IsOk(entry.result) /\ ~entry.result.ok.should_publish

Accepted(entry) == IsOk(entry.result) /\ entry.result.ok.should_publish

BudgetError == Raise("ValueError", "Failed to generate a tweet")

Exhausted == pc = "raised" /\ error = BudgetError

AllRejected ==
    /\ Len(judge_log) = MaxAttempts
    /\ \A k \in 1..Len(judge_log) : Rejected(judge_log[k])

\* sub occurs in s
Contains(s, sub) ==
    \E a \in 1..(Len(s) - Len(sub) + 1) : SubSeq(s, a, a + Len(sub) - 1) = sub

C1_Counts ==
    /\ Len(compose_log) <= MaxAttempts
    /\ Len(judge_log) <= MaxAttempts
    /\ i \in 0..(MaxAttempts - 1)
    /\ Terminal =>
         \A k \in 1..Len(judge_log) :
            (Accepted(judge_log[k]) /\ \A j \in 1..(k - 1) : ~Accepted(judge_log[j]))
                => /\ Len(compose_log) = k
                   /\ Len(judge_log) = k
                   /\ i = k - 1

C1_Step ==
    /\ i' \in {i, i + 1}
    /\ Terminal => (compose_log' = compose_log /\ judge_log' = judge_log)

C3_FeedbackReachesNextCompose ==
    \A k \in 1..Len(judge_log) :
        Rejected(judge_log[k]) =>
            /\ (k + 1 <= Len(compose_log) =>
                  /\ Contains(ComposeUserPrompt(compose_log[k + 1].input),
                              judge_log[k].result.ok.feedback)
                  /\ Contains(ComposeUserPrompt(compose_log[k + 1].input),
                              judge_log[k].input.tweet))
            /\ \A j \in 1..k :
                  ~Contains(ComposeUserPrompt(compose_log[j].input),
                            judge_log[k].result.ok.feedback)

Carries(e, text) == \E f \in DOMAIN e : Contains(e[f], text)

\* C5: the failure raised after the last rejection carries the candidate of the
\* last attempt and the feedback of the last rejection.
C5_FailureCarriesLastCandidate ==
    Exhausted =>
        /\ Carries(error, compose_log[Len(compose_log)].result.ok.tweet)
        /\ Carries(error, judge_log[Len(judge_log)].result.ok.feedback)

(***************************************************************************)
(* Properties of the tasks (specification SpecTools).                      *)
(***************************************************************************)
\* the JSON object the run got from the model
ReplyObject == run.completion.output_text.json.obj

\* the list the reply gives for `hashtags` (none is the empty list)
ReplyTags == Get(ReplyObject, "hashtags", JList(<<>>)).list

Returned(task) == run.task = task /\ IsOk(outcome)

Blank(s) == \A k \in 1..Len(s) : SubSeq(s, k, k) \in Whitespace

Trimmed(s) ==
    \/ Len(s) = 0
    \/ /\ SubSeq(s, 1, 1) \notin Whitespace
       /\ SubSeq(s, Len(s), Len(s)) \notin Whitespace

\* t is s without its leading and trailing whitespace
IsStripOf(t, s) ==
    /\ Trimmed(t)
    /\ \E a \in 1..(Len(s) + 1) : \E b \in (a - 1)..Len(s) :
          /\ SubSeq(s, a, b) = t
          /\ Blank(SubSeq(s, 1, a - 1))
          /\ Blank(SubSeq(s, b + 1, Len(s)))

\* R is L with each entry trimmed and the blank entries dropped, in L's order
IsCleanOf(R, L) ==
    LET idx == {k \in 1..Len(L) : ~Blank(L[k])}
    IN  /\ Len(R) = Cardinality(idx)
        /\ \A k \in idx : IsStripOf(R[Cardinality({m \in idx : m <= k})], L[k])

RECURSIVE SplitLines(_)
SplitLines(s) ==
    IF \E k \in 1..Len(s) : SubSeq(s, k, k) = "\n"
    THEN LET k == CHOOSE x \in 1..Len(s) :
                    /\ SubSeq(s, x, x) = "\n"
                    /\ \A j \in 1..(x - 1) : SubSeq(s, j, j) # "\n"
         IN  <<SubSeq(s, 1, k - 1)>> \o SplitLines(SubSeq(s, k + 1, Len(s)))
    ELSE <<s>>

\* C6: a verdict of judge_tweet that rejects has a non-empty feedback, the
\* fallback text when the model's feedback was empty or blank, and a verdict
\* that accepts has the empty feedback.
C6_VerdictFeedback ==
    Returned("judge_tweet") =>
        /\ outcome.ok.should_publish => outcome.ok.feedback = ""
        /\ ~outcome.ok.should_publish =>
             /\ Len(outcome.ok.feedback) > 0
             /\ ~Blank(outcome.ok.feedback)
             /\ Blank(Get(ReplyObject, "feedback", JStr("")).str)
                   => outcome.ok.feedback = FallbackFeedback

C6_Witness ==
    /\ Returned("judge_tweet")
    /\ ~outcome.ok.should_publish
    /\ "feedback" \in DOMAIN ReplyObject
    /\ ReplyObject["feedback"] = JStr(" \n")
    /\ outcome.ok.feedback = FallbackFeedback

\* C7: a post with non-empty headline, body and call-to-action is the three
\* trimmed sections in that order with one blank line between them, followed
\* by a blank line and the hashtag line when there are hashtags; the post of
\* "Ship It", "We shipped.", "Try it now." and [launch, ai] is
\* "Ship It\n\nWe shipped.\n\nTry it now.\n\nlaunch ai".
C7_BlankLineBetweenSections ==
    (/\ Returned("create_linkedin_post")
     /\ Len(outcome.ok.headline) > 0
     /\ Len(outcome.ok.body) > 0
     /\ Len(outcome.ok.cta) > 0) =>
        LET o == outcome.ok
            three == o.headline \o "\n\n" \o o.body \o "\n\n" \o o.cta
        IN  /\ Len(o.post) >= Len(three)
            /\ SubSeq(o.post, 1, Len(three)) = three
            /\ o.hashtags = <<>> /\ (ReplyTags = <<>> \/ ~run.input.include_hashtags)
                  => o.post = three
            /\ o.hashtags # <<>> /\ ReplyTags = o.hashtags
                  => o.post = three \o "\n\n" \o join(" ", o.hashtags)
            /\ (/\ o.headline = "Ship It"
                /\ o.body = "We shipped."
                /\ o.cta = "Try it now."
                /\ ReplyTags = <<"launch", "ai">>
                /\ run.input.include_hashtags)
                  => o.post = "Ship It\n\nWe shipped.\n\nTry it now.\n\nlaunch ai"

\* C8: the post of create_linkedin_post has, after its sections, exactly one
\* hashtag line, the returned hashtags joined by single spaces in their order,
\* when that list is non-empty, and no further line when it is empty.
C8_OneHashtagLine ==
    Returned("create_linkedin_post") =>
        LET o == outcome.ok
        IN  NonEmpty(SplitLines(o.post))
              = NonEmpty(<<o.headline, o.body, o.cta>>)
                  \o (IF o.hashtags # <<>> THEN <<join(" ", o.hashtags)>> ELSE <<>>)

C9_Strings ==
    /\ Returned("create_linkedin_post") =>
         /\ IsStripOf(outcome.ok.headline, ReplyObject["headline"].str)
         /\ IsStripOf(outcome.ok.body, ReplyObject["body"].str)
         /\ IsStripOf(outcome.ok.cta, ReplyObject["cta"].str)
    /\ Returned("compose_tweet") => IsStripOf(outcome.ok.tweet, ReplyObject["tweet"].str)

C9_Example ==
    ReplyTags = <<"  launch ", "", "ai">> => outcome.ok.hashtags = <<"launch", "ai">>

\* C9 as claimed: every string field of a returned artifact is the reply's
\* string trimmed, and its hashtags are the reply's list with each entry trimmed
\* and the blank entries dropped, in the reply's order.
C9_TrimmedFields ==
    /\ C9_Strings
    /\ (Returned("create_linkedin_post") \/ Returned("compose_tweet")) =>
         /\ IsCleanOf(outcome.ok.hashtags, ReplyTags)
         /\ C9_Example

\* C9 as amended: as claimed, except that create_linkedin_post returns the empty
\* hashtag list when its request has include_hashtags = false.
C9_TrimmedFieldsAmended ==
    /\ C9_Strings
    /\ (Returned("create_linkedin_post") /\ ~run.input.include_hashtags)
         => outcome.ok.hashtags = <<>>
    /\ (\/ Returned("create_linkedin_post") /\ run.input.include_hashtags
        \/ Returned("compose_tweet")) =>
         /\ IsCleanOf(outcome.ok.hashtags, ReplyTags)
         /\ C9_Example

C9_Witness ==
    /\ Returned("create_linkedin_post")
    /\ run.input.include_hashtags
    /\ ReplyObject["headline"] = JStr("  Ship It\n")
    /\ ReplyTags = <<"  launch ", "", "ai">>
    /\ outcome.ok.headline = "Ship It"
    /\ outcome.ok.hashtags = <<"launch", "ai">>

\* the text payload of the run's completion
HasPayload ==
    IF run.task = "response_to_pydantic" THEN TRUE
    ELSE \/ "output_text" \in DOMAIN run.completion
         \/ Len(run.completion.output) > 0 /\ Len(run.completion.output[1]) > 0

Payload ==
    IF run.task = "response_to_pydantic" THEN run.completion
    ELSE IF "output_text" \in DOMAIN run.completion THEN run.completion.output_text
    ELSE run.completion.output[1][1]

EmptyPayload ==
    \/ ~HasPayload
    \/ Payload.py # "str"
    \/ "chars" \in DOMAIN Payload /\ Payload.chars = ""

\* the failure tells that the reply had no content
IsEmptyResponse(o) ==
    /\ IsRaise(o)
    /\ o.msg \in {"OpenAI returned empty content.",
                  "OpenAI returned an unexpected response structure."}

\* the failure tells that the reply did not parse
IsSchemaViolation(o) ==
    /\ IsRaise(o)
    /\ \/ o.exc = "ValidationError"
       \/ o.msg = "OpenAI response JSON could not be parsed."

\* C10: extraction (response_to_pydantic, _extract_response_json) fails with the
\* empty-response error when the payload is absent, empty or not a string, and
\* with the parse error when a non-empty payload does not parse; no failure is
\* both.
C10_ClassifiedFailures ==
    (run.task \in {"extract_response_json", "response_to_pydantic"} /\ outcome # None) =>
        /\ EmptyPayload => (IsEmptyResponse(outcome) /\ ~IsSchemaViolation(outcome))
        /\ (~EmptyPayload /\ "chars" \in DOMAIN Payload) => IsSchemaViolation(outcome)
        /\ (~EmptyPayload /\ IsRaise(outcome))
              => (IsSchemaViolation(outcome) /\ ~IsEmptyResponse(outcome))
        /\ (/\ run.task = "response_to_pydantic"
            /\ ~EmptyPayload
            /\ "json" \in DOMAIN Payload
            /\ \/ ~IsJObj(Payload.json)
               \/ \E f \in run.input :
                     f \notin DOMAIN Payload.json.obj \/ ~IsJStr(Payload.json.obj[f]))
              => IsSchemaViolation(outcome)

\* the model's reply parsed to a JSON object
HasReplyObject ==
    /\ run.task \in {"compose_tweet", "judge_tweet", "create_linkedin_post"}
    /\ "output_text" \in DOMAIN run.completion
    /\ "json" \in DOMAIN run.completion.output_text
    /\ IsJObj(run.completion.output_text.json)

\* the reply has no usable value for the required text field key
LacksText(key) ==
    \/ key \notin DOMAIN ReplyObject
    \/ ~IsJStr(ReplyObject[key])
    \/ Blank(ReplyObject[key].str)

\* C11: an artifact returned by create_linkedin_post has a non-empty headline,
\* body and call-to-action, one returned by compose_tweet has a non-empty tweet
\* text, and a reply whose required field is missing, empty or blank makes the
\* task fail.
C11_RequiredFieldsNonEmpty ==
    /\ Returned("create_linkedin_post") =>
         /\ Len(outcome.ok.headline) > 0
         /\ Len(outcome.ok.body) > 0
         /\ Len(outcome.ok.cta) > 0
    /\ Returned("compose_tweet") => Len(outcome.ok.tweet) > 0
    /\ (/\ HasReplyObject
        /\ outcome # None
        /\ \/ /\ run.task = "create_linkedin_post"
              /\ LacksText("headline") \/ LacksText("body") \/ LacksText("cta")
           \/ run.task = "compose_tweet" /\ LacksText("tweet"))
          => IsRaise(outcome)

\* the request's instruction string is missing or empty, or its temperature
\* (in tenths) lies outside [0, 2]
InvalidRequest(field) ==
    \/ run.input[field] = Missing
    \/ ~IsJStr(run.input[field])
    \/ run.input[field].str = ""
    \/ run.input.temperature < 0
    \/ run.input.temperature > 20

\* C12: a run of compose_tweet or judge_tweet whose request is invalid (the
\* instruction string missing or empty, the temperature outside [0, 2]) fails
\* with a validation error and has made no call to the generation service; and
\* when building the compose request fails validation in twitter_agent, the
\* invocation ends with no compose call made for that attempt.
C12_InvalidRequestMakesNoCall ==
    /\ (/\ run # None
        /\ outcome # None
        /\ \/ run.task = "compose_tweet" /\ InvalidRequest("prompt")
           \/ run.task = "judge_tweet" /\ InvalidRequest("tweet"))
          => /\ IsRaise(outcome)
             /\ outcome.exc = "ValidationError"
             /\ model_calls = 0
    /\ (error # None /\ error.exc = "ValidationError")
          => /\ pc = "raised"
             /\ Len(compose_log) = i
             /\ Len(judge_log) = i

\* the reply gives the required field key with a value of the JSON type Is
HasField(key, Is(_)) == key \in DOMAIN ReplyObject /\ Is(ReplyObject[key])

\* C13: no task turns a reply that lacks a required field, or has it with the
\* wrong type, into a result: a verdict returned by judge_tweet comes from a
\* reply with a boolean should_publish and a string feedback, and an artifact
\* returned by compose_tweet or create_linkedin_post from a reply with a
\* hashtags list.
C13_NoValueGuessed ==
    /\ Returned("judge_tweet") =>
         /\ HasReplyObject
         /\ HasField("should_publish", IsJBool)
         /\ HasField("feedback", IsJStr)
    /\ (Returned("compose_tweet") \/ Returned("create_linkedin_post")) =>
         /\ HasReplyObject
         /\ HasField("hashtags", IsJList)

\* the call k of log failed
Failed(log, k) == IsRaise(log[k].result)

\* the failed call k of log is the last call of the invocation, which ended
\* with that failure, in the attempt of the call, and returned nothing
PropagatedAtOnce(log, k) ==
    /\ k = Len(log)
    /\ pc = "raised"
    /\ error = log[k].result
    /\ output = None
    /\ i = k - 1
    /\ Len(compose_log) = k

RECURSIVE Entries(_)
Entries(s) ==
    IF \E k \in 1..Len(s) : SubSeq(s, k, k) = " "
    THEN LET k == CHOOSE x \in 1..Len(s) :
                    /\ SubSeq(s, x, x) = " "
                    /\ \A j \in 1..(x - 1) : SubSeq(s, j, j) # " "
         IN  <<SubSeq(s, 1, k - 1)>> \o Entries(SubSeq(s, k + 1, Len(s)))
    ELSE <<s>>

\* the lines of the returned post that follow its headline, body and
\* call-to-action
HashtagLines ==
    LET lines == NonEmpty(SplitLines(outcome.ok.post))
        sections == NonEmpty(<<outcome.ok.headline, outcome.ok.body, outcome.ok.cta>>)
    IN  SubSeq(lines, Len(sections) + 1, Len(lines))

\* the hashtags the returned post shows
ShownHashtags == IF HashtagLines = <<>> THEN <<>> ELSE Entries(HashtagLines[1])

\* C15, first part: with include_hashtags = false the result has no hashtags and
\* its post no hashtag line, whatever hashtags the reply has.
C15_SwitchedOff ==
    (Returned("create_linkedin_post") /\ ~run.input.include_hashtags) =>
        /\ outcome.ok.hashtags = <<>>
        /\ HashtagLines = <<>>

\* C15: with include_hashtags = false the result of create_linkedin_post has no
\* hashtags and its post no hashtag line, for every reply; and the hashtags the
\* post shows are always exactly the entries of the returned hashtags field.
C15_PostShowsReturnedHashtags ==
    /\ C15_SwitchedOff
    /\ Returned("create_linkedin_post") =>
         /\ Len(HashtagLines) <= 1
         /\ ShownHashtags = outcome.ok.hashtags

====
